---- MODULE Spec2Model ----
(***************************************************************************)
(* TCPServer of src/index.ts: the connection registry, the two periodic    *)
(* timers of each connection, the socket event handlers and the message   *)
(* dispatcher, over node:net sockets.                                      *)
(*                                                                         *)
(* A connection instance c \in Conns is one accepted net.Socket together   *)
(* with the ConnectionInfo object and the closures created for it.  The    *)
(* registry `connections` is keyed by the identifier string                *)
(* remoteAddress:remotePort, so two instances may carry the same key (the  *)
(* peer's port is reused once the earlier transport is gone).              *)
(*                                                                         *)
(* Time is Date.now() in units of 10 s.  The event loop is ideal at that    *)
(* scale: an interval timer fires at each multiple of its period after     *)
(* setInterval, and the clock does not pass a due timer, an unread byte or *)
(* an undelivered socket event.  Events that node emits from               *)
(* process.nextTick ('error' and 'close' after a destroy) run before any   *)
(* other callback, so their handlers are part of the step that destroyed   *)
(* the socket.                                                             *)
(*                                                                         *)
(* TCPClient of src/unnamed/part_000 is modelled next to it, with its own  *)
(* socket, flags and timers; its peer is a server that may send any line,  *)
(* end the stream, reset it or stay silent.                                *)
(***************************************************************************)
EXTENDS Integers, Sequences, FiniteSets, TLC

(***************************************************************************)
(* Bounds of the model                                                     *)
(***************************************************************************)
MaxConns == 2      \* connection instances accepted in one run
MaxTime == 6       \* the clock stops here
MaxInFlight == 1   \* Spec: lines sent by peers and not yet read
MaxCoalesced == 2  \* SpecWire: lines sent by the peer and not yet read
WireTime == 3      \* SpecWire: the clock stops here
ClientTime == 7    \* SpecClient: the clock stops here
UnknownTime == 3   \* SpecUnknown: the clock stops here
MaxEndTimers == 2  \* pending setTimeout callbacks of disconnect()

(***************************************************************************)
(* Program constants (units of 10 000 ms)                                  *)
(***************************************************************************)
KeepAliveTimeout == 3    \* new TCPServer(4000, 30000, 10000)
KeepAliveInterval == 1

Conns == 1..MaxConns
Ids == {"x", "y"}        \* `${socket.remoteAddress}:${socket.remotePort}`
NoId == "unassigned"
NoConn == 0
NoVal == "undefined"     \* an absent optional field
\* no well-formed message yet, or two of them keepAliveTimeout or more apart
Lapsed == [ok |-> FALSE, at |-> 0]

VARIABLES
    now,             \* Date.now()
    serverState,     \* "listening" | "stopped"
    connections,     \* Map<string, ConnectionInfo>: Ids -> instance or NoConn
    connId,          \* the connectionId captured by an instance's closures
    lastActivity,    \* ConnectionInfo.lastActivity
    isAlive,         \* ConnectionInfo.isAlive
    kaTimer,         \* ConnectionInfo.keepAliveInterval: [live, next]
    toTimer,         \* the timeout-check interval (handle not kept): [live, next]
    sock,            \* net.Socket: [state, peer, readEnded, writeEnded]
    inbuf,           \* bytes sent by the peer, not yet delivered in a data event
    wrote,           \* messages the last step wrote to each socket
    handled,         \* messages the last step passed to handleMessage, per socket
    rxLine,          \* bytes delivered since the last newline, per socket
    lastValidRx,     \* [ok, at]: time the last well-formed message was
                     \* delivered, per socket; Lapsed once two of them were
                     \* keepAliveTimeout or more apart (kept by the steps
                     \* that watch the wire)
    errSkew          \* 'Invalid message format' replies minus malformed lines
                     \* delivered since the socket's stream was last at a
                     \* line boundary

\* TCPClient
VARIABLES
    client,          \* this.client: [state, peer, readEnded, writeEnded],
                     \* state "none" | "connecting" | "open" | "destroyed"
    isConnected,     \* this.isConnected
    clientActivity,  \* this.lastActivity
    keepAliveTimer,  \* this.keepAliveTimer: [live, next]
    timeoutTimer,    \* this.timeoutTimer: [live, next]
    endTimers,       \* the pending setTimeout(() => client.end(), 100) of
                     \* disconnect(), oldest first; each records whether its
                     \* call wrote the close message
    clientInbuf,     \* bytes sent by the server, not yet delivered
    clientWrote,     \* messages the last step wrote to the client's socket
    clientHandled,   \* messages the last step passed to the client's
                     \* handleMessage
    clientRx         \* time of the connect event or of the last data event,
                     \* -1 before the connect event

serverVars == <<serverState, connections, connId, lastActivity, isAlive,
                kaTimer, toTimer, sock, inbuf, wrote, handled, rxLine,
                lastValidRx, errSkew>>
clientVars == <<client, isConnected, clientActivity, keepAliveTimer,
                timeoutTimer, endTimers, clientInbuf, clientWrote,
                clientHandled, clientRx>>
vars == <<now, serverVars, clientVars>>

(***************************************************************************)
(* ProtocolMessage and the wire encoding                                   *)
(***************************************************************************)
Msg(t, p, ts, i) == [type |-> t, payload |-> p, timestamp |-> ts, id |-> i]
NoMsg == Msg("none", NoVal, 0, NoVal)

\* JSON.stringify(message) + '\n': the JSON text (two fragments, so that a
\* data event may end inside it) followed by the newline.
Encode(m) == << [k |-> "head", m |-> m], [k |-> "tail", m |-> m],
                [k |-> "nl", m |-> NoMsg] >>
\* a line that is not JSON
JunkLine == << [k |-> "junk", m |-> NoMsg], [k |-> "nl", m |-> NoMsg] >>

\* The lines a peer sends.
PeerMsgs ==
    { Msg("data", "p1", 0, "i1"),
      Msg("ping", "ping", 0, "i2"),
      Msg("keepalive", "keepalive", 0, NoVal),
      Msg("close", "bye", 0, NoVal),
      Msg("status", "p1", 0, "i1") }
PeerLines == { Encode(m) : m \in PeerMsgs } \cup { JunkLine }
\* The lines that matter to a connection's life: one that counts as
\* activity and the close request.
LifeLines == { Encode(Msg("data", "p1", 0, "i1")),
               Encode(Msg("close", "bye", 0, NoVal)) }
\* A line that counts as activity.
DataLines == { Encode(Msg("data", "p1", 0, "i1")) }

RECURSIVE TrimLeft(_)
TrimLeft(s) ==
    IF s # <<>> /\ s[1].k = "nl" THEN TrimLeft(Tail(s)) ELSE s
RECURSIVE TrimRight(_)
TrimRight(s) ==
    IF s # <<>> /\ s[Len(s)].k = "nl"
    THEN TrimRight(SubSeq(s, 1, Len(s) - 1)) ELSE s

\* JSON.parse(text): white space around the value is skipped; anything but
\* exactly one complete JSON text throws.
ParseOk(chunk) ==
    LET b == TrimRight(TrimLeft(chunk))
    IN  /\ Len(b) = 2
        /\ b[1].k = "head"
        /\ b[2].k = "tail"
        /\ b[1].m = b[2].m
Parse(chunk) == TrimLeft(chunk)[1].m

(***************************************************************************)
(* net.Socket                                                              *)
(*   state      "none" | "open" | "destroyed"                              *)
(*   peer       what the transport has received from the peer and node has *)
(*              not yet processed: "up" | "fin" | "rst"                    *)
(*   readEnded  'end' has been emitted                                     *)
(*   writeEnded end() has been called on the write side                    *)
(***************************************************************************)
NoSock == [state |-> "none", peer |-> "up", readEnded |-> FALSE,
           writeEnded |-> FALSE]
NewSock == [state |-> "open", peer |-> "up", readEnded |-> FALSE,
            writeEnded |-> FALSE]
NoTimer == [live |-> FALSE, next |-> 0]

\* socket.destroy()
Destroy(s) == IF s.state = "open" THEN [s EXCEPT !.state = "destroyed"] ELSE s

\* socket.end(): half-close of the write side
End(s) == IF s.state = "open" THEN [s EXCEPT !.writeEnded = TRUE] ELSE s

\* socket.write hands the bytes to the stream
Writable(s) == s.state = "open" /\ ~s.writeEnded

\* socket.write after end(): the stream errors (write after end) and is
\* destroyed, 'error' and 'close' follow; on a destroyed socket the write
\* is dropped
WriteAfterEnd(s) == s.state = "open" /\ s.writeEnded

Init ==
    /\ now = 0
    /\ serverState = "listening"
    /\ connections = [i \in Ids |-> NoConn]
    /\ connId = [c \in Conns |-> NoId]
    /\ lastActivity = [c \in Conns |-> 0]
    /\ isAlive = [c \in Conns |-> FALSE]
    /\ kaTimer = [c \in Conns |-> NoTimer]
    /\ toTimer = [c \in Conns |-> NoTimer]
    /\ sock = [c \in Conns |-> NoSock]
    /\ inbuf = [c \in Conns |-> <<>>]
    /\ wrote = [c \in Conns |-> <<>>]
    /\ handled = [c \in Conns |-> <<>>]
    /\ rxLine = [c \in Conns |-> <<>>]
    /\ lastValidRx = [c \in Conns |-> Lapsed]
    /\ errSkew = [c \in Conns |-> 0]
    /\ client = NoSock
    /\ isConnected = FALSE
    /\ clientActivity = 0
    /\ keepAliveTimer = NoTimer
    /\ timeoutTimer = NoTimer
    /\ endTimers = <<>>
    /\ clientInbuf = <<>>
    /\ clientWrote = <<>>
    /\ clientHandled = <<>>
    /\ clientRx = -1

NoOutput == [c \in Conns |-> <<>>]

(***************************************************************************)
(* The reference framing of the inbound stream: the lines completed when   *)
(* `chunk` is delivered after the unterminated bytes `buf`, and the bytes  *)
(* left unterminated afterwards.  The code has no such buffer; rxLine is   *)
(* kept to say what a line of the stream is.                               *)
(***************************************************************************)
RECURSIVE CompletedLines(_, _)
CompletedLines(buf, chunk) ==
    IF chunk = <<>> THEN <<>>
    ELSE IF chunk[1].k = "nl"
         THEN <<buf>> \o CompletedLines(<<>>, Tail(chunk))
         ELSE CompletedLines(Append(buf, chunk[1]), Tail(chunk))
RECURSIVE RestOfLine(_, _)
RestOfLine(buf, chunk) ==
    IF chunk = <<>> THEN buf
    ELSE IF chunk[1].k = "nl"
         THEN RestOfLine(<<>>, Tail(chunk))
         ELSE RestOfLine(Append(buf, chunk[1]), Tail(chunk))
\* a line (without its newline) that is one JSON text
WellFormed(line) ==
    /\ Len(line) = 2
    /\ line[1].k = "head"
    /\ line[2].k = "tail"
    /\ line[1].m = line[2].m
LineMsg(line) == line[1].m
\* the messages whose JSON text is completed by `chunk`, in order
RECURSIVE Units(_, _)
Units(buf, chunk) ==
    IF chunk = <<>> THEN <<>>
    ELSE IF chunk[1].k = "nl" THEN Units(<<>>, Tail(chunk))
    ELSE (IF WellFormed(Append(buf, chunk[1])) THEN << chunk[1].m >> ELSE <<>>)
         \o Units(Append(buf, chunk[1]), Tail(chunk))
\* the malformed lines among `lines`
RECURSIVE Malformed(_)
Malformed(lines) ==
    IF lines = <<>> THEN 0
    ELSE (IF WellFormed(lines[1]) THEN 0 ELSE 1) + Malformed(Tail(lines))
\* the time of a well-formed message's delivery, after the earlier one at
\* `last`
ValidRx(last) ==
    IF ~last.ok \/ now - last.at >= KeepAliveTimeout
    THEN Lapsed
    ELSE [ok |-> TRUE, at |-> now]

RECURSIVE CountNl(_)
CountNl(s) ==
    IF s = <<>> THEN 0
    ELSE (IF s[1].k = "nl" THEN 1 ELSE 0) + CountNl(Tail(s))
RECURSIVE SumInFlight(_)
SumInFlight(S) ==
    IF S = {} THEN 0
    ELSE LET c == CHOOSE x \in S : TRUE
         IN  CountNl(inbuf[c]) + SumInFlight(S \ {c})

(***************************************************************************)
(* Registry                                                                *)
(***************************************************************************)
IsRegistered(c) == connId[c] # NoId /\ connections[connId[c]] = c
\* getConnectionCount(): this.connections.size
getConnectionCount == Cardinality({i \in Ids : connections[i] # NoConn})
\* getConnections(): Array.from(this.connections.keys())
getConnections == {i \in Ids : connections[i] # NoConn}

\* cleanupConnection without this.connections.delete(connectionId)
cleanupKeepingEntry(reg, ka, id) ==
    IF reg[id] # NoConn
    THEN [reg |-> reg, ka |-> [ka EXCEPT ![reg[id]] = NoTimer]]
    ELSE [reg |-> reg, ka |-> ka]

\* cleanupConnection(connectionId) on the registry `reg` and the
\* keep-alive handles `ka`: clearInterval of the entry's keepAliveInterval
\* (the timeout-check interval has no handle and is not touched), then
\* delete
cleanupConnection(reg, ka, id) ==
    IF reg[id] # NoConn
    THEN [reg |-> [reg EXCEPT ![id] = NoConn],
          ka |-> [ka EXCEPT ![reg[id]] = NoTimer]]
    ELSE [reg |-> reg, ka |-> ka]

\* the 'error' and then the 'close' handler of a socket, back to back
ErrorThenClose(reg, ka, id) ==
    LET a == cleanupConnection(reg, ka, id)
    IN  cleanupConnection(a.reg, a.ka, id)

\* bytes of a socket that is no longer open are never delivered
Flush(socks, buf) ==
    [d \in Conns |-> IF socks[d].state = "open" THEN buf[d] ELSE <<>>]
FlushSkew(socks, skew) ==
    [d \in Conns |-> IF socks[d].state = "open" THEN skew[d] ELSE 0]

(***************************************************************************)
(* server.on('connection')                                                 *)
(***************************************************************************)
Accept(c, id, raced, watch) ==
    /\ serverState = "listening"
    /\ connId[c] = NoId
    /\ \A d \in Conns : d < c => connId[d] # NoId
    \* identifiers are opaque: the first one seen is called "x"
    /\ c = 1 => id = "x"
    \* the peer's address:port names one live transport at a time: an
    \* earlier one is closed or (raced) reset with node yet to read the error
    /\ \A d \in Conns :
          connId[d] = id =>
             (sock[d].state # "open" \/ (raced /\ sock[d].peer = "rst"))
    /\ connId' = [connId EXCEPT ![c] = id]
    /\ connections' = [connections EXCEPT ![id] = c]
    /\ lastActivity' = [lastActivity EXCEPT ![c] = now]
    /\ isAlive' = [isAlive EXCEPT ![c] = TRUE]
    /\ sock' = [sock EXCEPT ![c] = NewSock]
    /\ kaTimer' = [kaTimer EXCEPT
                     ![c] = [live |-> TRUE, next |-> now + KeepAliveInterval]]
    /\ toTimer' = [toTimer EXCEPT
                     ![c] = [live |-> TRUE, next |-> now + KeepAliveTimeout]]
    /\ lastValidRx' = IF watch
                       THEN [lastValidRx EXCEPT ![c] = [ok |-> TRUE, at |-> now]]
                       ELSE lastValidRx
    /\ wrote' = NoOutput
    /\ handled' = NoOutput
    /\ UNCHANGED <<now, serverState, inbuf, rxLine, errSkew>>
    /\ UNCHANGED clientVars

(***************************************************************************)
(* handleMessage and sendMessage                                           *)
(***************************************************************************)
\* a handleMessage whose default branch answers the sender
ReplyToAnyType(m) ==
    CASE m.type = "data" -> << Msg("data", m.payload, now, m.id) >>
      [] m.type = "ping" -> << Msg("pong", "pong", now, m.id) >>
      [] m.type = "keepalive" -> << Msg("keepalive", "alive", now, m.id) >>
      [] m.type = "close" -> << Msg("close", "closed by client", now, NoVal) >>
      [] OTHER -> << Msg("data", "Unknown message type", now, m.id) >>
\* the messages handleMessage sends for `m`
Reply(m) ==
    CASE m.type = "data" -> << Msg("data", m.payload, now, m.id) >>
      [] m.type = "ping" -> << Msg("pong", "pong", now, m.id) >>
      [] m.type = "keepalive" -> << Msg("keepalive", "alive", now, m.id) >>
      [] m.type = "close" -> << Msg("close", "closed by client", now, NoVal) >>
      [] OTHER -> <<>>
\* the reply of the data handler's catch branch
InvalidFormat == Msg("data", "Invalid message format", now, NoVal)

\* sendMessage(socket t, each message of out), then socket.end() with `end`
\* (t = NoConn: no socket is touched): the sockets afterwards
SocksAfter(t, out, end) ==
    IF t = NoConn THEN sock
    ELSE LET s1 == IF out # <<>> /\ WriteAfterEnd(sock[t])
                   THEN Destroy(sock[t]) ELSE sock[t]
             s2 == IF end THEN End(s1) ELSE s1
         IN  [sock EXCEPT ![t] = s2]
\* what the stream took
WroteAfter(t, out) ==
    IF t # NoConn /\ Writable(sock[t])
    THEN [NoOutput EXCEPT ![t] = out]
    ELSE NoOutput
\* whether the write failed, so that 'error' and 'close' of t are emitted
WriteFailed(t, out) == t # NoConn /\ out # <<>> /\ WriteAfterEnd(sock[t])

(***************************************************************************)
(* socket.on('data')                                                       *)
(***************************************************************************)
OnData(c, k, watch) ==
    /\ sock[c].state = "open"
    /\ sock[c].peer # "rst"
    /\ k \in 1..Len(inbuf[c])
    /\ LET chunk == SubSeq(inbuf[c], 1, k)
           rest == SubSeq(inbuf[c], k + 1, Len(inbuf[c]))
           ok == ParseOk(chunk)
           m == Parse(chunk)
           conn == connections[connId[c]]
           t == IF ok THEN conn ELSE c
           out == IF ok THEN Reply(m) ELSE << InvalidFormat >>
           socks == SocksAfter(t, out, ok /\ m.type = "close")
           after == IF WriteFailed(t, out)
                    THEN ErrorThenClose(connections, kaTimer, connId[t])
                    ELSE [reg |-> connections, ka |-> kaTimer]
           lines == CompletedLines(rxLine[c], chunk)
       IN  /\ sock' = socks
           /\ wrote' = WroteAfter(t, out)
           /\ connections' = after.reg
           /\ kaTimer' = after.ka
           /\ handled' = [NoOutput EXCEPT ![c] = IF ok THEN << m >> ELSE <<>>]
           /\ lastActivity' = IF ok /\ conn # NoConn
                              THEN [lastActivity EXCEPT ![conn] = now]
                              ELSE lastActivity
           /\ isAlive' = IF ok /\ conn # NoConn
                         THEN [isAlive EXCEPT ![conn] = TRUE]
                         ELSE isAlive
           /\ inbuf' = Flush(socks, [inbuf EXCEPT ![c] = rest])
           /\ rxLine' = Flush(socks,
                          [rxLine EXCEPT ![c] = RestOfLine(rxLine[c], chunk)])
           /\ lastValidRx' =
                 IF watch /\ Units(rxLine[c], chunk) # <<>>
                 THEN [lastValidRx EXCEPT ![c] = ValidRx(@)]
                 ELSE lastValidRx
           /\ errSkew' = FlushSkew(socks,
                 [errSkew EXCEPT ![c] =
                    (IF rxLine[c] = <<>> THEN 0 ELSE @)
                    + (IF ok THEN 0 ELSE 1) - Malformed(lines)])
    /\ UNCHANGED <<now, serverState, connId, toTimer>>
    /\ UNCHANGED clientVars

(***************************************************************************)
(* socket.on('end'), socket.on('error'), socket.on('close')                *)
(***************************************************************************)
\* the peer's FIN is read after the buffered data: the 'end' handler cleans
\* up; the socket was created without allowHalfOpen, so node ends its
\* write side as well
OnEnd(c) ==
    /\ sock[c].state = "open"
    /\ sock[c].peer = "fin"
    /\ ~sock[c].readEnded
    /\ inbuf[c] = <<>>
    /\ LET after == cleanupConnection(connections, kaTimer, connId[c])
       IN  /\ connections' = after.reg
           /\ kaTimer' = after.ka
    /\ sock' = [sock EXCEPT ![c] = [End(@) EXCEPT !.readEnded = TRUE]]
    /\ rxLine' = rxLine
    /\ wrote' = NoOutput
    /\ handled' = NoOutput
    /\ UNCHANGED <<now, serverState, connId, lastActivity, isAlive, toTimer,
                   inbuf, lastValidRx, errSkew>>
    /\ UNCHANGED clientVars

\* both directions are finished: node destroys the socket and emits
\* 'close', whose handler cleans up
OnClose(c) ==
    /\ sock[c].state = "open"
    /\ sock[c].readEnded
    /\ sock[c].writeEnded
    /\ LET after == cleanupConnection(connections, kaTimer, connId[c])
       IN  /\ connections' = after.reg
           /\ kaTimer' = after.ka
    /\ sock' = [sock EXCEPT ![c] = Destroy(@)]
    /\ inbuf' = Flush(sock', inbuf)
    /\ rxLine' = Flush(sock', rxLine)
    /\ errSkew' = FlushSkew(sock', errSkew)
    /\ wrote' = NoOutput
    /\ handled' = NoOutput
    /\ UNCHANGED <<now, serverState, connId, lastActivity, isAlive, toTimer,
                   lastValidRx>>
    /\ UNCHANGED clientVars

\* node reads the transport's error (ECONNRESET): the socket is destroyed,
\* 'error' and then 'close' are emitted
OnError(c) ==
    /\ sock[c].state = "open"
    /\ sock[c].peer = "rst"
    /\ LET after == ErrorThenClose(connections, kaTimer, connId[c])
       IN  /\ connections' = after.reg
           /\ kaTimer' = after.ka
    /\ sock' = [sock EXCEPT ![c] = Destroy(@)]
    /\ inbuf' = Flush(sock', inbuf)
    /\ rxLine' = Flush(sock', rxLine)
    /\ errSkew' = FlushSkew(sock', errSkew)
    /\ wrote' = NoOutput
    /\ handled' = NoOutput
    /\ UNCHANGED <<now, serverState, connId, lastActivity, isAlive, toTimer,
                   lastValidRx>>
    /\ UNCHANGED clientVars

(***************************************************************************)
(* startKeepAlive: the two interval callbacks                              *)
(***************************************************************************)
\* the probe: if (connection.isAlive) sendMessage(connection.socket, ...)
Probe(c) ==
    IF isAlive[c] THEN << Msg("keepalive", "keepalive", now, NoVal) >> ELSE <<>>

KeepAliveFire(c) ==
    /\ kaTimer[c].live
    /\ kaTimer[c].next = now
    /\ LET socks == SocksAfter(c, Probe(c), FALSE)
           ka == [kaTimer EXCEPT ![c].next = now + KeepAliveInterval]
           after == IF WriteFailed(c, Probe(c))
                    THEN ErrorThenClose(connections, ka, connId[c])
                    ELSE [reg |-> connections, ka |-> ka]
       IN  /\ sock' = socks
           /\ wrote' = WroteAfter(c, Probe(c))
           /\ connections' = after.reg
           /\ kaTimer' = after.ka
           /\ inbuf' = Flush(socks, inbuf)
           /\ rxLine' = Flush(socks, rxLine)
           /\ errSkew' = FlushSkew(socks, errSkew)
    /\ handled' = NoOutput
    /\ UNCHANGED <<now, serverState, connId, lastActivity, isAlive, toTimer,
                   lastValidRx>>
    /\ UNCHANGED clientVars

\* the timeout check: now - connection.lastActivity > this.keepAliveTimeout
TimedOut(c) == now - lastActivity[c] > KeepAliveTimeout

\* on a timeout: connection.socket.destroy(), cleanupConnection(id); the
\* socket's 'close' handler follows if the socket was still open
TimeoutFire(c) ==
    /\ toTimer[c].live
    /\ toTimer[c].next = now
    /\ IF TimedOut(c)
       THEN LET socks == [sock EXCEPT ![c] = Destroy(@)]
                a == cleanupConnection(connections, kaTimer, connId[c])
                after == IF sock[c].state = "open"
                         THEN cleanupConnection(a.reg, a.ka, connId[c])
                         ELSE a
            IN  /\ sock' = socks
                /\ connections' = after.reg
                /\ kaTimer' = after.ka
                /\ inbuf' = Flush(socks, inbuf)
                /\ rxLine' = Flush(socks, rxLine)
                /\ errSkew' = FlushSkew(socks, errSkew)
       ELSE UNCHANGED <<sock, connections, kaTimer, inbuf, rxLine, errSkew>>
    /\ toTimer' = [toTimer EXCEPT ![c].next = now + KeepAliveTimeout]
    /\ wrote' = NoOutput
    /\ handled' = NoOutput
    /\ UNCHANGED <<now, serverState, connId, lastActivity, isAlive,
                   lastValidRx>>
    /\ UNCHANGED clientVars

(***************************************************************************)
(* stop(): every registered connection's keep-alive interval is cleared    *)
(* and its socket destroyed, the registry is cleared, the listener closed; *)
(* the 'close' handlers that follow find the registry empty                *)
(***************************************************************************)
Stop ==
    /\ serverState = "listening"
    /\ LET socks == [c \in Conns |->
                       IF IsRegistered(c) THEN Destroy(sock[c]) ELSE sock[c]]
       IN  /\ sock' = socks
           /\ inbuf' = Flush(socks, inbuf)
           /\ rxLine' = Flush(socks, rxLine)
           /\ errSkew' = FlushSkew(socks, errSkew)
    /\ kaTimer' = [c \in Conns |->
                     IF IsRegistered(c) THEN NoTimer ELSE kaTimer[c]]
    /\ connections' = [i \in Ids |-> NoConn]
    /\ serverState' = "stopped"
    /\ wrote' = NoOutput
    /\ handled' = NoOutput
    /\ UNCHANGED <<now, connId, lastActivity, isAlive, toTimer, lastValidRx>>
    /\ UNCHANGED clientVars

(***************************************************************************)
(* The peers and the clock                                                 *)
(***************************************************************************)
PeerSend(c, line, cap) ==
    /\ sock[c].state = "open"
    /\ sock[c].peer = "up"
    /\ SumInFlight(Conns) < cap
    \* a further line is sent once the lines before it have been read up to
    \* a line boundary
    /\ rxLine[c] = <<>>
    /\ inbuf' = [inbuf EXCEPT ![c] = @ \o line]
    /\ wrote' = NoOutput
    /\ handled' = NoOutput
    /\ UNCHANGED <<now, serverState, connections, connId, lastActivity,
                   isAlive, kaTimer, toTimer, sock, rxLine, lastValidRx,
                   errSkew>>
    /\ UNCHANGED clientVars

\* the peer ends its write side (FIN)
PeerEnd(c) ==
    /\ sock[c].state = "open"
    /\ sock[c].peer = "up"
    /\ sock' = [sock EXCEPT ![c].peer = "fin"]
    /\ wrote' = NoOutput
    /\ handled' = NoOutput
    /\ UNCHANGED <<now, serverState, connections, connId, lastActivity,
                   isAlive, kaTimer, toTimer, inbuf, rxLine, lastValidRx,
                   errSkew>>
    /\ UNCHANGED clientVars

\* the transport is reset (the peer aborts or vanishes): unread bytes are
\* lost
PeerReset(c) ==
    /\ sock[c].state = "open"
    /\ sock[c].peer # "rst"
    /\ sock' = [sock EXCEPT ![c].peer = "rst"]
    /\ inbuf' = [inbuf EXCEPT ![c] = <<>>]
    /\ wrote' = NoOutput
    /\ handled' = NoOutput
    /\ UNCHANGED <<now, serverState, connections, connId, lastActivity,
                   isAlive, kaTimer, toTimer, rxLine, lastValidRx, errSkew>>
    /\ UNCHANGED clientVars

\* something is queued for socket c: unread bytes, an unread FIN or reset,
\* or the close of a socket finished in both directions
Busy(c) ==
    /\ sock[c].state = "open"
    /\ \/ inbuf[c] # <<>>
       \/ sock[c].peer = "rst"
       \/ sock[c].peer = "fin" /\ ~sock[c].readEnded
       \/ sock[c].readEnded /\ sock[c].writeEnded

\* something is queued for the client's socket
ClientBusy ==
    /\ client.state = "open"
    /\ \/ clientInbuf # <<>>
       \/ client.peer = "rst"
       \/ client.peer = "fin" /\ ~client.readEnded
       \/ client.readEnded /\ client.writeEnded

\* the clock advances once every timer due now has fired and nothing is
\* queued
Tick(maxT) ==
    /\ now < maxT
    \* only differences of Date.now() are read: time 0 is the first accept
    /\ connId[1] # NoId
    /\ \A c \in Conns :
          /\ ~(kaTimer[c].live /\ kaTimer[c].next = now)
          /\ ~(toTimer[c].live /\ toTimer[c].next = now)
          /\ ~Busy(c)
    /\ ~(keepAliveTimer.live /\ keepAliveTimer.next = now)
    /\ ~(timeoutTimer.live /\ timeoutTimer.next = now)
    /\ endTimers = <<>>
    /\ ~ClientBusy
    /\ now' = now + 1
    /\ wrote' = NoOutput
    /\ handled' = NoOutput
    /\ UNCHANGED <<serverState, connections, connId, lastActivity, isAlive,
                   kaTimer, toTimer, sock, inbuf, rxLine, lastValidRx,
                   errSkew>>
    /\ UNCHANGED clientVars

\* the data events the transport may deliver next on socket c: any prefix
\* of the unread bytes, or (split = FALSE) one whole line at a time
Chunks(c, split) ==
    IF split THEN 1..Len(inbuf[c])
    ELSE {k \in 1..Len(inbuf[c]) :
            inbuf[c][k].k = "nl" /\ CountNl(SubSeq(inbuf[c], 1, k)) = 1}

\* the steps of the connections C whose peers send the lines L, at most
\* cap of them unread at a time
NextFor(C, L, cap, split, raced, maxT) ==
    \/ \E c \in C, id \in Ids : Accept(c, id, raced, split)
    \/ \E c \in C : \E k \in Chunks(c, split) : OnData(c, k, split)
    \/ \E c \in C : OnEnd(c)
    \/ \E c \in C : OnError(c)
    \/ \E c \in C : OnClose(c)
    \/ \E c \in C : KeepAliveFire(c)
    \/ \E c \in C : TimeoutFire(c)
    \/ Stop
    \/ \E c \in C, line \in L : PeerSend(c, line, cap)
    \/ \E c \in C : PeerEnd(c)
    \/ \E c \in C : PeerReset(c)
    \/ Tick(maxT)

\* the registry and the connections' lives: every connection, lines
\* delivered one per data event, an address:port seen again as soon as
\* the transport allows
Next == NextFor(Conns, LifeLines, MaxInFlight, FALSE, TRUE, MaxTime)
Spec == Init /\ [][Next]_vars

\* the same, with an address:port seen again only after the events of the
\* earlier socket have been handled
NextOrdered == NextFor(Conns, LifeLines, MaxInFlight, FALSE, FALSE, MaxTime)
SpecOrdered == Init /\ [][NextOrdered]_vars

\* the wire: one connection, every kind of line, data events that group
\* the bytes in any way
NextWire == NextFor({1}, PeerLines, MaxCoalesced, TRUE, FALSE, WireTime)
SpecWire == Init /\ [][NextWire]_vars

\* the wire and the timeout clock: one connection whose peer sends
\* messages that count as activity, data events that group the bytes in
\* any way
NextClock == NextFor({1}, DataLines, MaxInFlight, TRUE, FALSE, MaxTime)
SpecClock == Init /\ [][NextClock]_vars

(***************************************************************************)
(* TCPClient (src/unnamed/part_000)                                        *)
(***************************************************************************)
\* The lines a server sends to the client.
ServerMsgs ==
    { Msg("data", "p1", 0, "i1"),
      Msg("pong", "pong", 0, "i2"),
      Msg("keepalive", "keepalive", 0, NoVal),
      Msg("close", "closed by client", 0, NoVal),
      Msg("ping", "ping", 0, "i2"),
      Msg("status", "p1", 0, "i1") }
ServerLines == { Encode(m) : m \in ServerMsgs } \cup { JunkLine }

\* the client's timer handles after stopKeepAlive()
stopKeepAlive == [ka |-> NoTimer, to |-> NoTimer]

\* sendMessage(message) with the timer handles ka and to: nothing if not
\* connected; else client.write and lastActivity = Date.now().  A write
\* after end() destroys the socket: the 'error' handler clears isConnected,
\* the 'close' handler stops the timers.
sendMessage(out, ka, to) ==
    IF ~isConnected
    THEN [sock |-> client, conn |-> isConnected, act |-> clientActivity,
          ka |-> ka, to |-> to, wrote |-> <<>>]
    ELSE IF WriteAfterEnd(client)
    THEN [sock |-> Destroy(client), conn |-> FALSE, act |-> now,
          ka |-> stopKeepAlive.ka, to |-> stopKeepAlive.to, wrote |-> <<>>]
    ELSE [sock |-> client, conn |-> isConnected, act |-> now,
          ka |-> ka, to |-> to,
          wrote |-> IF Writable(client) THEN out ELSE <<>>]

\* the client's variables after sendMessage, with `timers` more pending
\* end timers
Sent(r, timers) ==
    /\ client' = r.sock
    /\ isConnected' = r.conn
    /\ clientActivity' = r.act
    /\ keepAliveTimer' = r.ka
    /\ timeoutTimer' = r.to
    /\ clientWrote' = r.wrote
    /\ clientHandled' = <<>>
    /\ endTimers' = endTimers \o timers
    /\ clientInbuf' = IF r.sock.state = "open" THEN clientInbuf ELSE <<>>

\* connect(): client.connect(port, host)
connect ==
    /\ client.state = "none"
    /\ client' = [client EXCEPT !.state = "connecting"]
    /\ clientWrote' = <<>>
    /\ clientHandled' = <<>>
    /\ UNCHANGED <<now, isConnected, clientActivity, keepAliveTimer,
                   timeoutTimer, endTimers, clientInbuf, clientRx>>
    /\ UNCHANGED serverVars

\* client.on("connect"): the connection is established; startKeepAlive()
\* sets both intervals
OnConnect ==
    /\ client.state = "connecting"
    /\ client.peer = "up"
    /\ client' = [client EXCEPT !.state = "open"]
    /\ isConnected' = TRUE
    /\ clientActivity' = now
    /\ clientRx' = now
    /\ keepAliveTimer' = [live |-> TRUE, next |-> now + KeepAliveInterval]
    /\ timeoutTimer' = [live |-> TRUE, next |-> now + KeepAliveTimeout]
    /\ clientWrote' = <<>>
    /\ clientHandled' = <<>>
    /\ UNCHANGED <<now, endTimers, clientInbuf>>
    /\ UNCHANGED serverVars

\* the close message of disconnect()
ClientClose == Msg("close", "Client disconnecting", now, NoVal)
\* no sendMessage call
NotSent ==
    [sock |-> client, conn |-> isConnected, act |-> clientActivity,
     ka |-> keepAliveTimer, to |-> timeoutTimer, wrote |-> <<>>]

\* the data events the transport delivers to the client: one line each
ClientChunks ==
    {k \in 1..Len(clientInbuf) :
        clientInbuf[k].k = "nl" /\ CountNl(SubSeq(clientInbuf, 1, k)) = 1}

\* client.on("data"): lastActivity = Date.now(), then
\* JSON.parse(data.toString().trim()) and handleMessage, where a close
\* message calls disconnect(); a parse error is logged
ClientOnData(k) ==
    /\ client.state = "open"
    /\ client.peer # "rst"
    /\ k \in ClientChunks
    /\ LET chunk == SubSeq(clientInbuf, 1, k)
           rest == SubSeq(clientInbuf, k + 1, Len(clientInbuf))
           closing == ParseOk(chunk) /\ Parse(chunk).type = "close"
           r == IF closing
                THEN sendMessage(<< ClientClose >>, keepAliveTimer,
                                 timeoutTimer)
                ELSE NotSent
       IN  /\ closing => Len(endTimers) < MaxEndTimers
           /\ client' = r.sock
           /\ isConnected' = r.conn
           /\ clientActivity' = now
           /\ keepAliveTimer' = r.ka
           /\ timeoutTimer' = r.to
           /\ clientWrote' = r.wrote
           /\ clientHandled' = IF ParseOk(chunk) THEN << Parse(chunk) >>
                                ELSE <<>>
           /\ endTimers' = IF closing
                            THEN Append(endTimers, r.wrote # <<>>)
                            ELSE endTimers
           /\ clientInbuf' = IF r.sock.state = "open" THEN rest ELSE <<>>
    /\ clientRx' = now
    /\ UNCHANGED now
    /\ UNCHANGED serverVars

\* client.on("error") and the "close" that follows the destroy:
\* isConnected = false, then isConnected = false and stopKeepAlive()
ClientOnError ==
    /\ client.state \in {"connecting", "open"}
    /\ client.peer = "rst"
    /\ client' = [client EXCEPT !.state = "destroyed"]
    /\ isConnected' = FALSE
    /\ keepAliveTimer' = stopKeepAlive.ka
    /\ timeoutTimer' = stopKeepAlive.to
    /\ clientInbuf' = <<>>
    /\ clientWrote' = <<>>
    /\ clientHandled' = <<>>
    /\ UNCHANGED <<now, clientActivity, endTimers, clientRx>>
    /\ UNCHANGED serverVars

\* client.on("end"): isConnected = false, stopKeepAlive(); the socket was
\* created without allowHalfOpen, so node ends its write side as well
ClientOnEnd ==
    /\ client.state = "open"
    /\ client.peer = "fin"
    /\ ~client.readEnded
    /\ clientInbuf = <<>>
    /\ client' = [End(client) EXCEPT !.readEnded = TRUE]
    /\ isConnected' = FALSE
    /\ keepAliveTimer' = stopKeepAlive.ka
    /\ timeoutTimer' = stopKeepAlive.to
    /\ clientWrote' = <<>>
    /\ clientHandled' = <<>>
    /\ UNCHANGED <<now, clientActivity, endTimers, clientInbuf, clientRx>>
    /\ UNCHANGED serverVars

\* client.on("close") once both directions are finished
ClientOnClose ==
    /\ client.state = "open"
    /\ client.readEnded
    /\ client.writeEnded
    /\ client' = Destroy(client)
    /\ isConnected' = FALSE
    /\ keepAliveTimer' = stopKeepAlive.ka
    /\ timeoutTimer' = stopKeepAlive.to
    /\ clientInbuf' = <<>>
    /\ clientWrote' = <<>>
    /\ clientHandled' = <<>>
    /\ UNCHANGED <<now, clientActivity, endTimers, clientRx>>
    /\ UNCHANGED serverVars

\* the keep-alive interval of startKeepAlive():
\* if (this.isConnected) sendMessage({type: "keepalive", ...})
ClientProbe == Msg("keepalive", "keepalive", now, "keepalive_n")
ClientKeepAliveFire ==
    /\ keepAliveTimer.live
    /\ keepAliveTimer.next = now
    /\ LET ka == [keepAliveTimer EXCEPT !.next = now + KeepAliveInterval]
       IN  Sent(sendMessage(<< ClientProbe >>, ka, timeoutTimer), <<>>)
    /\ UNCHANGED <<now, clientRx>>
    /\ UNCHANGED serverVars

\* the timeout check of startKeepAlive():
\* now - this.lastActivity > this.keepAliveTimeout
ClientTimedOut == now - clientActivity > KeepAliveTimeout
\* on a timeout client.destroy(); the "close" handler follows
ClientTimeoutFire ==
    /\ timeoutTimer.live
    /\ timeoutTimer.next = now
    /\ IF ClientTimedOut
       THEN /\ client' = [client EXCEPT !.state = "destroyed"]
            /\ isConnected' = FALSE
            /\ keepAliveTimer' = stopKeepAlive.ka
            /\ timeoutTimer' = stopKeepAlive.to
            /\ clientInbuf' = <<>>
       ELSE /\ timeoutTimer' =
                  [timeoutTimer EXCEPT !.next = now + KeepAliveTimeout]
            /\ UNCHANGED <<client, isConnected, keepAliveTimer, clientInbuf>>
    /\ clientWrote' = <<>>
    /\ clientHandled' = <<>>
    /\ UNCHANGED <<now, clientActivity, endTimers, clientRx>>
    /\ UNCHANGED serverVars

\* send(data) and ping(): the application sends a message
AppMsgs ==
    { Msg("data", "p1", now, "data_n"), Msg("ping", "ping", now, "ping_n") }
AppSend(m) ==
    /\ client.state # "none"
    /\ Sent(sendMessage(<< m >>, keepAliveTimer, timeoutTimer), <<>>)
    /\ UNCHANGED <<now, clientRx>>
    /\ UNCHANGED serverVars

\* disconnect(): sendMessage({type: "close", ...}), then client.end() from a
\* setTimeout of 100 ms
disconnect ==
    /\ client.state # "none"
    /\ Len(endTimers) < MaxEndTimers
    /\ LET r == sendMessage(<< ClientClose >>, keepAliveTimer, timeoutTimer)
       IN  Sent(r, << r.wrote # <<>> >>)
    /\ UNCHANGED <<now, clientRx>>
    /\ UNCHANGED serverVars

\* the setTimeout callback of disconnect(): client.end()
EndTimerFire ==
    /\ endTimers # <<>>
    /\ endTimers' = Tail(endTimers)
    /\ client' = IF client.state \in {"connecting", "open"}
                  THEN [client EXCEPT !.writeEnded = TRUE]
                  ELSE client
    /\ clientWrote' = <<>>
    /\ clientHandled' = <<>>
    /\ UNCHANGED <<now, isConnected, clientActivity, keepAliveTimer,
                   timeoutTimer, clientInbuf, clientRx>>
    /\ UNCHANGED serverVars

(***************************************************************************)
(* The client's peer and clock                                             *)
(***************************************************************************)
\* the server sends a line, once the one before it has been read
ServerSend(line) ==
    /\ client.state = "open"
    /\ client.peer = "up"
    /\ clientInbuf = <<>>
    /\ clientInbuf' = line
    /\ clientWrote' = <<>>
    /\ clientHandled' = <<>>
    /\ UNCHANGED <<now, client, isConnected, clientActivity, keepAliveTimer,
                   timeoutTimer, endTimers, clientRx>>
    /\ UNCHANGED serverVars

\* the server ends its write side (FIN)
ServerEnd ==
    /\ client.state = "open"
    /\ client.peer = "up"
    /\ client' = [client EXCEPT !.peer = "fin"]
    /\ clientWrote' = <<>>
    /\ clientHandled' = <<>>
    /\ UNCHANGED <<now, isConnected, clientActivity, keepAliveTimer,
                   timeoutTimer, endTimers, clientInbuf, clientRx>>
    /\ UNCHANGED serverVars

\* the connection is refused or reset: unread bytes are lost
ServerReset ==
    /\ client.state \in {"connecting", "open"}
    /\ client.peer # "rst"
    /\ client' = [client EXCEPT !.peer = "rst"]
    /\ clientInbuf' = <<>>
    /\ clientWrote' = <<>>
    /\ clientHandled' = <<>>
    /\ UNCHANGED <<now, isConnected, clientActivity, keepAliveTimer,
                   timeoutTimer, endTimers, clientRx>>
    /\ UNCHANGED serverVars

\* the clock advances once every timer due now has fired and nothing is
\* queued; time 0 is the connect event
ClientTick(maxT) ==
    /\ now < maxT
    /\ client.state \in {"open", "destroyed"}
    /\ ~(keepAliveTimer.live /\ keepAliveTimer.next = now)
    /\ ~(timeoutTimer.live /\ timeoutTimer.next = now)
    /\ endTimers = <<>>
    /\ ~ClientBusy
    /\ now' = now + 1
    /\ clientWrote' = <<>>
    /\ clientHandled' = <<>>
    /\ UNCHANGED <<client, isConnected, clientActivity, keepAliveTimer,
                   timeoutTimer, endTimers, clientInbuf, clientRx>>
    /\ UNCHANGED serverVars

\* the steps of the client whose server sends the lines L
\* the steps of a client whose application only calls connect()
ClientSteps(L) ==
    \/ connect
    \/ OnConnect
    \/ \E k \in ClientChunks : ClientOnData(k)
    \/ ClientOnError
    \/ ClientOnEnd
    \/ ClientOnClose
    \/ ClientKeepAliveFire
    \/ ClientTimeoutFire
    \/ \E line \in L : ServerSend(line)
    \/ ServerEnd
    \/ ServerReset
ClientNextFor(L, maxT) ==
    \/ ClientSteps(L)
    \/ \E m \in AppMsgs : AppSend(m)
    \/ disconnect
    \/ EndTimerFire
    \/ ClientTick(maxT)

\* the client and a server that may send anything or nothing
NextClient == ClientNextFor(ServerLines, ClientTime)
SpecClient == Init /\ [][NextClient]_vars

(***************************************************************************)
(* Server and client side by side on one clock, each receiving messages    *)
(* whose type its handleMessage has no case for.                           *)
(***************************************************************************)
\* the message types handleMessage has a case for
ServerTypes == {"data", "ping", "keepalive", "close"}
ClientTypes == {"data", "pong", "keepalive", "close"}
UnknownToServer ==
    { Encode(Msg("pong", "pong", 0, "i2")),
      Encode(Msg("status", "p1", 0, "i1")) }
UnknownToClient ==
    { Encode(Msg("ping", "ping", 0, "i2")),
      Encode(Msg("status", "p1", 0, "i1")) }
NextUnknown ==
    \/ NextFor({1}, UnknownToServer, MaxInFlight, FALSE, FALSE, UnknownTime)
    \/ ClientSteps(UnknownToClient)
SpecUnknown == Init /\ [][NextUnknown]_vars

(***************************************************************************)
(* Properties                                                              *)
(***************************************************************************)
\* the transport of c is closed, or closed in both directions with the
\* 'close' event on its way
Closed(c) ==
    \/ sock[c].state = "destroyed"
    \/ sock[c].readEnded /\ sock[c].writeEnded
\* c has left the registry in this step
Removed(c) == IsRegistered(c) /\ ~IsRegistered(c)'
\* the timeout action of some connection has run in this step
TimeoutAction == \E d \in Conns : TimeoutFire(d) /\ TimedOut(d)

\* C1: in every reachable state, a connection with a live periodic timer
\* (keep-alive probe or inactivity check) is in the registry; a connection
\* torn down by cleanupConnection or stop() has both timers cancelled.
LiveTimersAreRegistered ==
    \A c \in Conns :
       (kaTimer[c].live \/ toTimer[c].live) => IsRegistered(c)

\* a connection-fatal event of c: its stream end, stream error, socket
\* close, or its own timeout action
FatalEvent(c) ==
    \/ OnEnd(c)
    \/ OnError(c)
    \/ OnClose(c)
    \/ TimeoutFire(c) /\ TimedOut(c)
\* the step leaves what belongs to connection d alone
Untouched(d) ==
    /\ IsRegistered(d)' = IsRegistered(d)
    /\ kaTimer'[d] = kaTimer[d]
    /\ toTimer'[d] = toTimer[d]
    /\ lastActivity'[d] = lastActivity[d]
    /\ isAlive'[d] = isAlive[d]

\* C2: a connection-fatal event of one connection tears down that
\* connection only: the registry entry, timers, lastActivity and isAlive of
\* every other connection, also one accepted later under the same
\* identifier, are unchanged, so a connection whose socket is open stays
\* registered.
FatalEventIsLocal ==
    [][\A c \in Conns :
          FatalEvent(c) =>
             \A d \in Conns \ {c} :
                /\ Untouched(d)
                /\ (IsRegistered(d) /\ sock[d].state = "open")
                      => IsRegistered(d)']_vars

\* C3: a registered connection without inbound messages is destroyed and
\* removed from the registry by the timeout action no earlier than
\* keepAliveTimeout and no later than twice keepAliveTimeout after its last
\* activity; getConnectionCount() is then one lower and getConnections()
\* no longer lists its identifier.
TimeoutRemovesIdleOnly ==
    [][\A c \in Conns :
          /\ (TimeoutAction /\ Removed(c)) =>
                /\ now - lastActivity[c] >= KeepAliveTimeout
                /\ now - lastActivity[c] <= 2 * KeepAliveTimeout
                /\ sock'[c].state = "destroyed"
                /\ getConnectionCount' = getConnectionCount - 1
                /\ connId[c] \notin getConnections'
          /\ (IsRegistered(c) /\ sock[c].state = "open")' =>
                (now - lastActivity[c] <= 2 * KeepAliveTimeout)']_vars

\* C5: teardown of an identifier is idempotent: the one call that removes
\* the entry closes the transport and cancels both timers of the
\* connection, every other call changes nothing.
TeardownClosesAndCancels ==
    [][\A c \in Conns :
          (Removed(c) /\ serverState' = "listening") =>
             /\ Closed(c)'
             /\ ~kaTimer'[c].live
             /\ ~toTimer'[c].live]_vars

\* C6: once the closing event of a connection's transport has been handled
\* (the peer's end, a socket error, the close event, or a destroy issued by
\* the server), the registry holds no entry for that connection.
NoClosedSocketRegistered ==
    \A c \in Conns :
       (sock[c].state = "destroyed" \/ sock[c].readEnded) => ~IsRegistered(c)
\* one connection ended by its peer with the 'end' handler run, another
\* destroyed
ClosedSocketsHandled ==
    \E c, d \in Conns :
       /\ sock[c].state = "open" /\ sock[c].readEnded
       /\ sock[d].state = "destroyed"
       /\ ~IsRegistered(c) /\ ~IsRegistered(d)

\* C4: while valid messages keep arriving on a connection less than
\* keepAliveTimeout apart (the first one after the accept), no timeout
\* action destroys its socket or removes it from the registry.
ActiveNeverTimedOut ==
    [][\A c \in Conns :
          (/\ TimeoutAction
           /\ \/ Removed(c)
              \/ sock[c].state = "open" /\ sock'[c].state = "destroyed")
          => \/ ~lastValidRx[c].ok
             \/ now - lastValidRx[c].at >= KeepAliveTimeout]_vars

\* the bytes of the data event that this step delivers on socket c, if it is
\* one
DataEvent(c, k) == OnData(c, k, TRUE)
Delivered(c, k) == SubSeq(inbuf[c], 1, k)
IsData(m) == m.type = "data"
IsPing(m) == m.type = "ping"
IsPong(m) == m.type = "pong"

\* C7: for every well-formed data message received on an open connection
\* the server sends, on that connection, a reply of type data with the
\* request's payload and id.
DataIsEchoed ==
    [][\A c \in Conns : \A k \in 1..Len(inbuf[c]) :
          (DataEvent(c, k) /\ Writable(sock[c]) /\ IsRegistered(c)) =>
             LET rx == SelectSeq(Units(rxLine[c], Delivered(c, k)), IsData)
                 tx == SelectSeq(wrote'[c], IsData)
             IN  \A i \in 1..Len(rx) :
                    \E j \in 1..Len(tx) :
                       /\ tx[j].payload = rx[i].payload
                       /\ tx[j].id = rx[i].id]_vars

\* C8: for every ping received on an open connection the server sends
\* exactly one pong on that connection, with the ping's id.
PingIsPonged ==
    [][\A c \in Conns : \A k \in 1..Len(inbuf[c]) :
          (DataEvent(c, k) /\ Writable(sock[c]) /\ IsRegistered(c)) =>
             LET rx == SelectSeq(Units(rxLine[c], Delivered(c, k)), IsPing)
                 tx == SelectSeq(wrote'[c], IsPong)
             IN  /\ Len(tx) = Len(rx)
                 /\ \A i \in 1..Len(rx) : tx[i].id = rx[i].id]_vars

\* C9: each newline-terminated message of the inbound stream is decoded and
\* dispatched as one unit, exactly once and in arrival order, however the
\* bytes are grouped into data events.
DispatchedOncePerMessage ==
    [][\A c \in Conns : \A k \in 1..Len(inbuf[c]) :
          DataEvent(c, k) =>
             handled'[c] = Units(rxLine[c], Delivered(c, k))]_vars

\* C10: for every line that is not parseable the server sends exactly one
\* 'Invalid message format' reply on the connection and leaves it open and
\* registered.
MalformedLineOneReply ==
    [][\A c \in Conns : \A k \in 1..Len(inbuf[c]) :
          (DataEvent(c, k) /\ Writable(sock[c]) /\ IsRegistered(c)) =>
             /\ rxLine'[c] = <<>> => errSkew'[c] = 0
             /\ ~ParseOk(Delivered(c, k)) =>
                   /\ sock'[c].state = "open"
                   /\ IsRegistered(c)']_vars

IsClose(m) == m.type = "close"

\* C11: when a client sends a close message on an open connection the
\* server sends one close message and ends only its write side (no
\* destroy); the half-closed connection is still due a step that removes it
\* from the registry; the client, on the stream's end, is no longer
\* connected and has both timers stopped.
CloseHandshake ==
    [][/\ \A c \in Conns : \A k \in 1..Len(inbuf[c]) :
             (/\ DataEvent(c, k) /\ Writable(sock[c]) /\ IsRegistered(c)
              /\ SelectSeq(Units(rxLine[c], Delivered(c, k)), IsClose) # <<>>)
             => /\ Len(SelectSeq(wrote'[c], IsClose)) = 1
                /\ sock'[c].state = "open"
                /\ sock'[c].writeEnded
                /\ IsRegistered(c)' => kaTimer'[c].live /\ isAlive'[c]
       /\ ClientOnEnd =>
             /\ ~isConnected'
             /\ ~keepAliveTimer'.live
             /\ ~timeoutTimer'.live]_vars

\* C12: stop() tears down every connection: afterwards the registry is
\* empty, every socket that was registered is destroyed and both periodic
\* timers of every connection that was registered are cancelled; once the
\* server is stopped no timer fires and the registry does not change.
StopTearsDownAll ==
    [][/\ Stop =>
             /\ getConnectionCount' = 0
             /\ \A c \in Conns :
                   IsRegistered(c) =>
                      /\ sock'[c].state = "destroyed"
                      /\ ~kaTimer'[c].live
                      /\ ~toTimer'[c].live
       /\ serverState = "stopped" =>
             /\ connections' = connections
             /\ \A c \in Conns : ~KeepAliveFire(c) /\ ~TimeoutFire(c)]_vars

\* C13: lastActivity of a connection, the server's and the client's,
\* changes only when the connection is established or an inbound message
\* is received; sending a message and the firing of a periodic timer leave
\* it unchanged.
ActivityOnlyOnReceipt ==
    [][/\ \A c \in Conns :
             lastActivity'[c] # lastActivity[c] =>
                \/ \E id \in Ids, raced, watch \in BOOLEAN :
                      Accept(c, id, raced, watch)
                \/ \E d \in Conns, watch \in BOOLEAN :
                      \E k \in 1..Len(inbuf[d]) : OnData(d, k, watch)
       /\ clientActivity' # clientActivity =>
             \/ OnConnect
             \/ \E k \in ClientChunks : ClientOnData(k)]_vars

\* C14: a connected client that has received no data for more than
\* keepAliveTimeout has its socket destroyed by its timeout action within
\* twice keepAliveTimeout of the last inbound data, whatever it sends
\* itself; once the socket is destroyed both timers are stopped.
SilentServerDetected ==
    /\ isConnected => now - clientRx <= 2 * KeepAliveTimeout
    /\ client.state = "destroyed" =>
          ~keepAliveTimer.live /\ ~timeoutTimer.live

\* C15: registering a connection under an identifier that is already in
\* the registry fails: the existing entry is not replaced, and its socket
\* and timers are left as they are, still reachable through the registry.
DuplicateIdRejected ==
    [][\A c \in Conns, id \in Ids, raced, watch \in BOOLEAN :
          (Accept(c, id, raced, watch) /\ connections[id] # NoConn) =>
             LET old == connections[id]
             IN  /\ connections'[id] = old
                 /\ sock'[old] = sock[old]
                 /\ kaTimer'[old] = kaTimer[old]
                 /\ toTimer'[old] = toTimer[old]]_vars

\* C16: every disconnect() sends a close message before the stream is
\* ended: when the end() scheduled by a call of disconnect() ends the
\* client's write side, that call has written a close message.
CloseBeforeEnd ==
    [][(EndTimerFire /\ ~client.writeEnded /\ client'.writeEnded)
          => Head(endTimers)]_vars

\* a callback of the client is still to run: a timer, a pending end(), a
\* connection attempt or a socket event
ClientPending ==
    \/ keepAliveTimer.live
    \/ timeoutTimer.live
    \/ endTimers # <<>>
    \/ client.state = "connecting"
    \/ ClientBusy

\* C17: after the client's connection is lost (stream end, socket close,
\* socket error or timeout) the client becomes connected again by itself:
\* a client that was connected and is not connected has a callback still
\* to run.
ReconnectsAfterLoss ==
    (clientRx >= 0 /\ ~isConnected) => ClientPending

\* the server has sent its close reply on socket t and ended the write
\* side; the peer's end has not been read yet
CloseReplied(t) ==
    sock[t].state = "open" /\ sock[t].writeEnded /\ ~sock[t].readEnded
\* the socket that the data event of the first k bytes on socket c answers
\* on, and what it sends there
ReplySocket(c, k) ==
    IF ParseOk(Delivered(c, k)) THEN connections[connId[c]] ELSE c
ReplyOut(c, k) ==
    IF ParseOk(Delivered(c, k))
    THEN Reply(Parse(Delivered(c, k)))
    ELSE << InvalidFormat >>
\* this step calls sendMessage on socket t
WritesTo(t) ==
    \/ KeepAliveFire(t) /\ Probe(t) # <<>>
    \/ \E c \in Conns, watch \in BOOLEAN : \E k \in 1..Len(inbuf[c]) :
          /\ OnData(c, k, watch)
          /\ ReplySocket(c, k) = t
          /\ ReplyOut(c, k) # <<>>

\* C18: after the server has answered a close message with its close reply
\* and ended the write side of the socket, it writes nothing further to
\* that socket: no keep-alive probe, no reply to a later message, no
\* 'Invalid message format' reply.
CloseReplyIsFinal ==
    [][\A t \in Conns : CloseReplied(t) => ~WritesTo(t)]_vars

\* the data event of the first k bytes carries a message of a type the
\* server's (the client's) handleMessage has no case for
UnknownAtServer(c, k) ==
    ParseOk(Delivered(c, k)) /\ Parse(Delivered(c, k)).type \notin ServerTypes
UnknownAtClient(k) ==
    LET chunk == SubSeq(clientInbuf, 1, k)
    IN  ParseOk(chunk) /\ Parse(chunk).type \notin ClientTypes

\* C19: a message of a type outside the handled set (pong on the server,
\* ping on the client, any other string) causes no outbound message and no
\* closing on either side; on the server the connection stays registered
\* and its lastActivity is set to the time of receipt.
UnknownTypeIgnored ==
    [][/\ \A c \in Conns : \A k \in 1..Len(inbuf[c]) :
            (DataEvent(c, k) /\ IsRegistered(c) /\ UnknownAtServer(c, k))
            => /\ wrote' = NoOutput
               /\ sock' = sock
               /\ connections' = connections
               /\ kaTimer' = kaTimer
               /\ lastActivity'[c] = now
       /\ \A k \in ClientChunks :
            (ClientOnData(k) /\ UnknownAtClient(k))
            => /\ clientWrote' = <<>>
               /\ client' = client
               /\ isConnected' = isConnected
               /\ endTimers' = endTimers
               /\ keepAliveTimer' = keepAliveTimer
               /\ timeoutTimer' = timeoutTimer]_vars

\* C19: the server has just handled a pong on a registered connection at a
\* time after its registration, and the connected client a ping.
UnknownTypesHandled ==
    /\ IsRegistered(1)
    /\ handled[1] # <<>>
    /\ handled[1][1].type = "pong"
    /\ now > 0
    /\ lastActivity[1] = now
    /\ isConnected
    /\ clientHandled # <<>>
    /\ clientHandled[1].type = "ping"

\* the keep-alive probe of connection c went out on its socket, and nothing
\* else was written
ProbeEmitted(c) ==
    wrote' = [NoOutput EXCEPT
                 ![c] = << Msg("keepalive", "keepalive", now, NoVal) >>]

\* C20: isAlive is true of every registered connection, so every keep-alive
\* tick of a registered connection emits exactly one keepalive message on
\* that connection, and the timeout check closes the connection exactly
\* when its lastActivity is older than the timeout.
AliveSoProbedEachTick ==
    [][\A c \in Conns :
          /\ IsRegistered(c) => isAlive[c]
          /\ (KeepAliveFire(c) /\ IsRegistered(c)) => ProbeEmitted(c)
          /\ (TimeoutFire(c) /\ IsRegistered(c))
             => (TimedOut(c) <=> sock'[c].state = "destroyed")]_vars

\* the parts of C20 that concern isAlive and the writable socket
AliveWhileRegistered ==
    \A c \in Conns : IsRegistered(c) => isAlive[c]
ProbedEachTickWhileWritable ==
    [][\A c \in Conns :
          /\ (KeepAliveFire(c) /\ IsRegistered(c) /\ Writable(sock[c]))
             => ProbeEmitted(c)
          /\ (TimeoutFire(c) /\ IsRegistered(c))
             => (TimedOut(c) <=> sock'[c].state = "destroyed")]_vars

====
